---- MODULE Spec2Model ----
(***************************************************************************)
(* Model of the CFR / court-opinion explorer (src/main.js, the live        *)
(* program of lines 123-414).                                              *)
(*                                                                         *)
(*  - the query plan builder (theQuery, pdfsQuery, nextGranularity) as     *)
(*    operators that build the structure of the SQL text knex prints;      *)
(*  - the SQL the text denotes, evaluated over small databases (joins,     *)
(*    WHERE, GROUP BY, the aggregates, DISTINCT, ORDER BY, LIMIT);         *)
(*  - the reactive pipeline of go(): the van.state cells, the two          *)
(*    van.derive computations, the event handlers of selectorsDisplay and  *)
(*    the executions in flight at the sqlite worker.                       *)
(***************************************************************************)
EXTENDS Integers, Sequences, FiniteSets, TLC

VARIABLES
    agencyFilter, titleFilter, partFilter, sectionFilter, \* van.state cells, main.js:160-163
    granularity, sortKey, limit, pdfsLimit,               \* van.state cells, main.js:174-177
    queryResults, pdfs,                                   \* output cells, main.js:179-180
    pending,      \* executions dispatched by ez_query and not yet settled
    nextId,       \* number of executions dispatched so far, plus one
    lastEvent,    \* the UI event handled last (history)
    settled,      \* per computation, the id of the execution that wrote the output
                  \* cell last and of the one that was rejected last (history)
    db,           \* the database the query is evaluated over
    out           \* the last result of a query-builder call

cellVars == <<agencyFilter, titleFilter, partFilter, sectionFilter,
              granularity, sortKey, limit, pdfsLimit>>
pipeVars == <<agencyFilter, titleFilter, partFilter, sectionFilter,
              granularity, sortKey, limit, pdfsLimit, queryResults, pdfs,
              pending, nextId, lastEvent, settled>>
vars == <<agencyFilter, titleFilter, partFilter, sectionFilter,
          granularity, sortKey, limit, pdfsLimit, queryResults, pdfs,
          pending, nextId, lastEvent, settled, db, out>>

(***************************************************************************)
(* Bounds                                                                  *)
(***************************************************************************)
\* executions the pipeline may dispatch in one behaviour
MaxExec == 4
\* largest row limit handed to the query builders
MaxLimit == 2

\* van.state(100), the row limit of both queries
DefaultLimit == 100

(***************************************************************************)
(* Query plan builder                                                      *)
(***************************************************************************)
Error(msg) == [kind |-> "error", message |-> msg]

\* filterObj(): the four filter cells as one object
filterObj(a, t, p, s) == [agency |-> a, title |-> t, part |-> p, section |-> s]

\* "if (filter.agency) ... else if (filter.title) ..." of both builders; ''
\* is falsy.  The result is the list of equality predicates of the WHERE.
applyFilter(filter) ==
    IF filter.agency # ""
    THEN <<[col |-> "cfr_agency.agency", val |-> filter.agency]>>
    ELSE IF filter.title # ""
         THEN <<[col |-> "cfr_section.title", val |-> filter.title]>>
              \o (IF filter.part # ""
                  THEN <<[col |-> "cfr_section.part", val |-> filter.part]>>
                       \o (IF filter.section # ""
                           THEN <<[col |-> "cfr_section.section", val |-> filter.section]>>
                           ELSE <<>>)
                  ELSE <<>>)
         ELSE <<>>

\* the joins theQuery always chains on knex('cfr_section')
theQueryJoins ==
    << [type |-> "left", table |-> "cfr_pdf"],
       [type |-> "left", table |-> "court_opinion_pdf"],
       [type |-> "left", table |-> "cfr_agency"] >>

KnownGranularities == {"title", "chapter", "part", "section", "agency"}
KnownSortKeys == {"num_cases", "num_words", "case_word_ratio"}

\* switch(granularity) of theQuery
granularityColumns(g) ==
    CASE g = "title"   -> <<"cfr_section.title">>
      [] g = "chapter" -> <<"cfr_section.title", "cfr_section.chapter">>
      [] g = "part"    -> <<"cfr_section.title", "cfr_section.chapter", "cfr_section.part">>
      [] g = "section" -> <<"cfr_section.title", "cfr_section.chapter", "cfr_section.part",
                            "cfr_section.section">>
      [] g = "agency"  -> <<"cfr_agency.agency">>

\* a fallback a careless builder could take for an unknown granularity
theQueryDefaulting(filter, g, sk, lim) ==
    LET gg == IF g \in KnownGranularities THEN g ELSE "title"
        ss == IF sk \in KnownSortKeys THEN sk ELSE "case_word_ratio"
    IN [kind |-> "sql", from |-> "cfr_section", joins |-> theQueryJoins,
        where |-> applyFilter(filter), groupBy |-> granularityColumns(gg),
        select |-> ss, distinct |-> FALSE,
        orderBy |-> [col |-> ss, dir |-> "desc"], limit |-> lim]

\* theQuery(filter, granularity, sortKey, limit): the SQL text, or the Error
\* thrown.  select names the aggregate of the sort key:
\*   num_cases        COUNT(DISTINCT court_opinion_pdf.package_id)
\*   num_words        SUM(cfr_section.num_words)
\*   case_word_ratio  COUNT(DISTINCT court_opinion_pdf.package_id)
\*                      / CAST(num_words as REAL)      (num_words a bare column)
theQuery(filter, g, sk, lim) ==
    IF g \notin KnownGranularities THEN Error("Unknown granularity")
    ELSE IF sk \notin KnownSortKeys THEN Error("Unknown sort key")
    ELSE [kind |-> "sql", from |-> "cfr_section", joins |-> theQueryJoins,
          where |-> applyFilter(filter), groupBy |-> granularityColumns(g),
          select |-> sk, distinct |-> FALSE,
          orderBy |-> [col |-> sk, dir |-> "desc"], limit |-> lim]

\* pdfsQuery(filter, limit); knex orders ascending when orderBy is given no
\* direction
pdfsQuery(filter, lim) ==
    [kind |-> "sql", from |-> "cfr_section",
     joins |-> << [type |-> "inner", table |-> "cfr_pdf"],
                  [type |-> "inner", table |-> "court_opinion_pdf"],
                  [type |-> "left", table |-> "cfr_agency"] >>,
     where |-> applyFilter(filter), groupBy |-> <<>>,
     select |-> "court_opinion_pdf.*", distinct |-> TRUE,
     orderBy |-> [col |-> "court_opinion_pdf.date_opinion_issued", dir |-> "asc"],
     limit |-> lim]

JsNull == "<null>"

\* nextGranularity(last_granularity): every path of the switch returns, so
\* the throw after it is never reached
nextGranularity(g) ==
    CASE g = "title"   -> [threw |-> FALSE, value |-> "chapter"]
      [] g = "chapter" -> [threw |-> FALSE, value |-> "part"]
      [] g = "part"    -> [threw |-> FALSE, value |-> "section"]
      [] g = "agency"  -> [threw |-> FALSE, value |-> "part"]
      [] OTHER         -> [threw |-> FALSE, value |-> JsNull]

(***************************************************************************)
(* The database: the five relations of the sqlite file, as sets of rows.   *)
(* The sections and opinions are fixed; the section-pdf links and the      *)
(* agencies of a (title, chapter) vary.  (40, I) can have two agencies,    *)
(* section 40 CFR 1.1 can be cited by two documents of one case.           *)
(***************************************************************************)
Sections ==
    { [title |-> "40", chapter |-> "I", part |-> "1", section |-> "1", num_words |-> 10],
      [title |-> "40", chapter |-> "I", part |-> "1", section |-> "2", num_words |-> 20],
      [title |-> "14", chapter |-> "I", part |-> "1", section |-> "1", num_words |-> 5] }

Opinions ==
    { [granule_id |-> "G1", package_id |-> "P1", date_opinion_issued |-> 1],
      [granule_id |-> "G2", package_id |-> "P1", date_opinion_issued |-> 2],
      [granule_id |-> "G3", package_id |-> "P2", date_opinion_issued |-> 3] }

Links ==
    { [title |-> "40", part |-> "1", section |-> "1", granule_id |-> "G1"],
      [title |-> "40", part |-> "1", section |-> "1", granule_id |-> "G2"],
      [title |-> "40", part |-> "1", section |-> "2", granule_id |-> "G3"],
      [title |-> "14", part |-> "1", section |-> "1", granule_id |-> "G3"] }

Agencies ==
    { [title |-> "40", chapter |-> "I", agency |-> "EPA"],
      [title |-> "40", chapter |-> "I", agency |-> "FAA"],
      [title |-> "14", chapter |-> "I", agency |-> "FAA"] }

Databases ==
    { [cfr_section |-> Sections, cfr_pdf |-> l, court_opinion_pdf |-> Opinions,
       cfr_agency |-> a] : l \in SUBSET Links, a \in SUBSET Agencies }

\* the database the pipeline runs on: one section per title, the section of
\* title 40 cited by two documents of one case, one agency per title
TheDatabase ==
    [cfr_section |-> { s \in Sections : s.section = "1" },
     cfr_pdf |-> { l \in Links : l.title = "40" /\ l.section = "1" },
     court_opinion_pdf |-> Opinions,
     cfr_agency |-> { a \in Agencies : a.title = "40" => a.agency = "EPA" }]

(***************************************************************************)
(* What the SQL text denotes (sqlite's evaluation of the built query)      *)
(***************************************************************************)
Null == "NULL"
NullPdf == [title |-> Null, part |-> Null, section |-> Null, granule_id |-> Null]
NullOpinion == [granule_id |-> Null, package_id |-> Null, date_opinion_issued |-> -1]
NullAgency == [title |-> Null, chapter |-> Null, agency |-> Null]

JoinOf(sql, table) ==
    LET hits == {i \in 1..Len(sql.joins) : sql.joins[i].table = table}
    IN IF hits = {} THEN "none" ELSE sql.joins[CHOOSE i \in hits : TRUE].type

\* the rows one join contributes for a left-hand row: its matches, one row
\* of NULLs for a LEFT JOIN without a match, nothing for an inner join
\* without a match; a table that is not joined contributes no fan-out
Joined(type, matches, nullRow) ==
    CASE type = "none" -> {nullRow}
      [] matches # {}  -> matches
      [] type = "left" -> {nullRow}
      [] OTHER         -> {}

PdfsOf(sql, d, s) ==
    Joined(JoinOf(sql, "cfr_pdf"),
           {p \in d.cfr_pdf : p.title = s.title /\ p.part = s.part /\ p.section = s.section},
           NullPdf)

OpinionsOf(sql, d, p) ==
    Joined(JoinOf(sql, "court_opinion_pdf"),
           {o \in d.court_opinion_pdf : o.granule_id = p.granule_id},
           NullOpinion)

AgenciesOf(sql, d, s) ==
    Joined(JoinOf(sql, "cfr_agency"),
           {a \in d.cfr_agency : a.title = s.title /\ a.chapter = s.chapter},
           NullAgency)

\* FROM cfr_section JOIN ... : one row per combination of matching rows
JoinedRows(sql, d) ==
    UNION { UNION { UNION { { [s |-> s, p |-> p, o |-> o, a |-> a]
                              : a \in AgenciesOf(sql, d, s) }
                            : o \in OpinionsOf(sql, d, p) }
                    : p \in PdfsOf(sql, d, s) }
            : s \in d.cfr_section }

Col(r, c) ==
    CASE c = "cfr_section.title"   -> r.s.title
      [] c = "cfr_section.chapter" -> r.s.chapter
      [] c = "cfr_section.part"    -> r.s.part
      [] c = "cfr_section.section" -> r.s.section
      [] c = "cfr_agency.agency"   -> r.a.agency

\* WHERE: every predicate is col = 'val'; NULL equals nothing
FilteredRows(sql, d) ==
    { r \in JoinedRows(sql, d) :
        \A i \in 1..Len(sql.where) : Col(r, sql.where[i].col) = sql.where[i].val }

KeyOf(sql, r) == [i \in 1..Len(sql.groupBy) |-> Col(r, sql.groupBy[i])]

GroupKeys(sql, d) == { KeyOf(sql, r) : r \in FilteredRows(sql, d) }

GroupRows(sql, d, k) == { r \in FilteredRows(sql, d) : KeyOf(sql, r) = k }

RECURSIVE SumWords(_)
\* SUM(cfr_section.num_words) over joined rows: a section counts once per
\* joined row it appears in
SumWords(rows) ==
    IF rows = {} THEN 0
    ELSE LET r == CHOOSE x \in rows : TRUE
         IN r.s.num_words + SumWords(rows \ {r})

\* COUNT(DISTINCT court_opinion_pdf.package_id): NULLs are not counted
CountDistinctPackages(rows) ==
    Cardinality({ r.o.package_id : r \in rows } \ {Null})

\* The values the aggregate of a group can take, each as the rational
\* num / den (a count or a sum has den = 1).  A bare column in an aggregate
\* query is read from an arbitrary row of the group.
AggregateValues(sql, rows) ==
    CASE sql.select = "num_cases" -> { [num |-> CountDistinctPackages(rows), den |-> 1] }
      [] sql.select = "num_words" -> { [num |-> SumWords(rows), den |-> 1] }
      [] sql.select = "case_word_ratio" ->
            { [num |-> CountDistinctPackages(rows), den |-> r.s.num_words] : r \in rows }

\* the row sets the grouped query can produce before ORDER BY and LIMIT
GroupedRowSets(sql, d) ==
    LET rows == FilteredRows(sql, d)
        keys == { KeyOf(sql, r) : r \in rows }
        vals == [ k \in keys |-> AggregateValues(sql, { r \in rows : KeyOf(sql, r) = k }) ]
        all == UNION { vals[k] : k \in keys }
    IN { { [key |-> k, value |-> f[k]] : k \in keys } :
           f \in { g \in [keys -> all] : \A k \in keys : g[k] \in vals[k] } }

\* SELECT DISTINCT court_opinion_pdf.*
DistinctOpinionRows(sql, d) == { r.o : r \in FilteredRows(sql, d) }

\* x sorts strictly below y under the ORDER BY column of the query; an
\* aggregate is compared as the real number num / den (every den here is
\* positive)
Less(sql, x, y) ==
    IF sql.orderBy.col = "court_opinion_pdf.date_opinion_issued"
    THEN x.date_opinion_issued < y.date_opinion_issued
    ELSE x.value.num * y.value.den < y.value.num * x.value.den

\* ORDER BY: every arrangement of the rows that respects the order; rows
\* that tie come in an order the engine chooses
Orderings(sql, rows) ==
    LET n == Cardinality(rows)
    IN { o \in [1..n -> rows] :
           /\ \A i, j \in 1..n : i # j => o[i] # o[j]
           /\ \A i, j \in 1..n : i < j =>
                 IF sql.orderBy.dir = "desc" THEN ~Less(sql, o[i], o[j])
                                             ELSE ~Less(sql, o[j], o[i]) }

\* LIMIT
Take(o, lim) == SubSeq(o, 1, IF lim < Len(o) THEN lim ELSE Len(o))

\* the row sequences the engine can answer the query with
Results(sql, d) ==
    LET rowSets == IF Len(sql.groupBy) > 0 THEN GroupedRowSets(sql, d)
                   ELSE { DistinctOpinionRows(sql, d) }
    IN UNION { { Take(o, sql.limit) : o \in Orderings(sql, rs) } : rs \in rowSets }

(***************************************************************************)
(* Reactive pipeline of go()                                               *)
(***************************************************************************)
Cells ==
    [agencyFilter |-> agencyFilter, titleFilter |-> titleFilter,
     partFilter |-> partFilter, sectionFilter |-> sectionFilter,
     granularity |-> granularity, sortKey |-> sortKey,
     limit |-> limit, pdfsLimit |-> pdfsLimit]

\* the cells each van.derive callback reads (.val) on every run; all reads
\* happen while the arguments are evaluated, before a builder can throw
aggregateDepsNoSortKey ==
    {"agencyFilter", "titleFilter", "partFilter", "sectionFilter", "granularity", "limit"}
aggregateDeps ==
    {"agencyFilter", "titleFilter", "partFilter", "sectionFilter",
     "granularity", "sortKey", "limit"}
pdfsDeps ==
    {"agencyFilter", "titleFilter", "partFilter", "sectionFilter", "pdfsLimit"}

\* a van.state setter notifies its listeners only when the value differs
stateChangedAlways(old, new) == TRUE
stateChanged(old, new) == old # new

\* ez_query(sql): one more execution in flight at the worker
ez_query(comp, sql, pend, n) ==
    [pending |-> pend \cup {[id |-> n, comp |-> comp, sql |-> sql]},
     nextId |-> n + 1, threw |-> FALSE]

\* body of the first van.derive: theQuery is evaluated first, and when it
\* throws ez_query is not called
aggregateRun(c, pend, n) ==
    LET sql == theQuery(filterObj(c.agencyFilter, c.titleFilter, c.partFilter, c.sectionFilter),
                        c.granularity, c.sortKey, c.limit)
    IN IF sql.kind = "error"
       THEN [pending |-> pend, nextId |-> n, threw |-> TRUE]
       ELSE ez_query("aggregate", sql, pend, n)

\* body of the second van.derive
pdfsRun(c, pend, n) ==
    ez_query("pdfs",
             pdfsQuery(filterObj(c.agencyFilter, c.titleFilter, c.partFilter, c.sectionFilter),
                       c.pdfsLimit),
             pend, n)

NoRun(pend, n) == [pending |-> pend, nextId |-> n, threw |-> FALSE]

\* An event handler wrote the cells c2: each derive whose cells changed runs
\* again, the aggregate one (registered first) before the case-list one.
WriteCells(c2) ==
    LET ch == { k \in DOMAIN c2 : stateChanged(Cells[k], c2[k]) }
        a  == IF ch \cap aggregateDeps # {} THEN aggregateRun(c2, pending, nextId)
              ELSE NoRun(pending, nextId)
        p  == IF ch \cap pdfsDeps # {} THEN pdfsRun(c2, a.pending, a.nextId)
              ELSE NoRun(a.pending, a.nextId)
    IN /\ p.nextId <= MaxExec + 1
       /\ agencyFilter' = c2.agencyFilter
       /\ titleFilter' = c2.titleFilter
       /\ partFilter' = c2.partFilter
       /\ sectionFilter' = c2.sectionFilter
       /\ granularity' = c2.granularity
       /\ sortKey' = c2.sortKey
       /\ limit' = c2.limit
       /\ pdfsLimit' = c2.pdfsLimit
       /\ pending' = p.pending
       /\ nextId' = p.nextId
       /\ UNCHANGED <<queryResults, pdfs, settled, db, out>>

\* what the user can type or pick
TitleInputs == {"", "40"}
PartInputs == {"", "1"}
SectionInputs == {"", "2"}
AgencyOptions == {"FAA"}
GranularityButtons == {"title", "part", "section", "agency"}
SortKeyButtons == {"num_words", "num_cases", "case_word_ratio"}

\* oninput of the title box: titleFilter.val = ev.target.value
InputTitle(v) == WriteCells([Cells EXCEPT !.titleFilter = v])

\* oninput of the part box: "partFilter = ev.target.value" assigns to the
\* const binding and throws a TypeError; no cell is written
InputPart(v) == WriteCells(Cells)

\* oninput of the section box: the same assignment to a const binding
InputSection(v) == WriteCells(Cells)

\* the agency <select> has no handler: picking an option writes no cell
SelectAgency(a) == WriteCells(Cells)

\* clearFilter, the "Clear All Filters" link
ClearFilter ==
    WriteCells([Cells EXCEPT !.agencyFilter = "", !.titleFilter = "",
                             !.partFilter = "", !.sectionFilter = ""])

\* btn(granularity, value, text): onclick writes the cell
ClickGranularity(g) == WriteCells([Cells EXCEPT !.granularity = g])

\* btn(sortKey, value, text)
ClickSortKey(k) == WriteCells([Cells EXCEPT !.sortKey = k])

\* the output cell the .then callback of a computation writes
WriteOutput(comp, rows) ==
    /\ queryResults' = IF comp = "aggregate" THEN rows ELSE queryResults
    /\ pdfs' = IF comp = "pdfs" THEN rows ELSE pdfs

\* a .then callback that drops the rows of a superseded execution
ResolveLatestOnly(e, rows) ==
    /\ IF \/ \E x \in pending : (x.comp = e.comp /\ x.id > e.id)
          \/ settled.writer[e.comp] > e.id
       THEN UNCHANGED <<queryResults, pdfs, settled>>
       ELSE /\ WriteOutput(e.comp, rows)
            /\ settled' = [settled EXCEPT !.writer[e.comp] = e.id]

\* the promise of ez_query resolves: .then(res => cell.val = res)
Resolve(e, rows) ==
    /\ WriteOutput(e.comp, rows)
    /\ settled' = [settled EXCEPT !.writer[e.comp] = e.id]

\* a rejection that empties the output cell
RejectClearing(e) ==
    /\ WriteOutput(e.comp, <<>>)
    /\ settled' = [settled EXCEPT !.failed[e.comp] = e.id]

\* the promise rejects: the .then callback does not run
Reject(e) ==
    /\ UNCHANGED <<queryResults, pdfs>>
    /\ settled' = [settled EXCEPT !.failed[e.comp] = e.id]

\* an engine that answers one computation only while the other is idle
MayAnswerSerial(e) == \A x \in pending : x.comp = e.comp
\* the engine may answer any execution in flight, whatever else is pending
MayAnswer(e) == TRUE

\* the engine answers execution e with rows
Complete(e) ==
    /\ e \in pending
    /\ MayAnswer(e)
    /\ \E rows \in Results(e.sql, db) : Resolve(e, rows)
    /\ pending' = pending \ {e}
    /\ UNCHANGED <<cellVars, nextId, lastEvent, db, out>>

\* the engine rejects execution e
Fail(e) ==
    /\ e \in pending
    /\ MayAnswer(e)
    /\ Reject(e)
    /\ pending' = pending \ {e}
    /\ UNCHANGED <<cellVars, nextId, lastEvent, db, out>>

NoCall == [kind |-> "none"]

\* go(): the cells with their initial values, and both derives run once
InitCells ==
    [agencyFilter |-> "", titleFilter |-> "", partFilter |-> "", sectionFilter |-> "",
     granularity |-> "title", sortKey |-> "case_word_ratio",
     limit |-> DefaultLimit, pdfsLimit |-> DefaultLimit]

InitPipeline ==
    /\ agencyFilter = InitCells.agencyFilter
    /\ titleFilter = InitCells.titleFilter
    /\ partFilter = InitCells.partFilter
    /\ sectionFilter = InitCells.sectionFilter
    /\ granularity = InitCells.granularity
    /\ sortKey = InitCells.sortKey
    /\ limit = InitCells.limit
    /\ pdfsLimit = InitCells.pdfsLimit
    /\ queryResults = <<>>
    /\ pdfs = <<>>
    /\ pending = pdfsRun(InitCells, aggregateRun(InitCells, {}, 1).pending,
                         aggregateRun(InitCells, {}, 1).nextId).pending
    /\ nextId = pdfsRun(InitCells, aggregateRun(InitCells, {}, 1).pending,
                        aggregateRun(InitCells, {}, 1).nextId).nextId
    /\ lastEvent = "none"
    /\ settled = [writer |-> [aggregate |-> 0, pdfs |-> 0],
                  failed |-> [aggregate |-> 0, pdfs |-> 0]]

Init ==
    /\ InitPipeline
    /\ db = TheDatabase
    /\ out = NoCall

Next ==
    \/ (\E v \in TitleInputs : InputTitle(v)) /\ UNCHANGED lastEvent
    \/ (\E v \in PartInputs : InputPart(v)) /\ UNCHANGED lastEvent
    \/ (\E v \in SectionInputs : InputSection(v)) /\ UNCHANGED lastEvent
    \/ (\E a \in AgencyOptions : SelectAgency(a)) /\ UNCHANGED lastEvent
    \/ ClearFilter /\ UNCHANGED lastEvent
    \/ (\E g \in GranularityButtons : ClickGranularity(g)) /\ UNCHANGED lastEvent
    \/ (\E k \in SortKeyButtons : ClickSortKey(k)) /\ UNCHANGED lastEvent
    \/ \E e \in pending : Complete(e)
    \/ \E e \in pending : Fail(e)

\* the running program: user events and engine answers, interleaved
Spec == Init /\ [][Next]_vars

\* the user interface alone, with the event handled last recorded
UiNext ==
    \/ (\E v \in TitleInputs : InputTitle(v)) /\ lastEvent' = "title"
    \/ (\E v \in PartInputs : InputPart(v)) /\ lastEvent' = "part"
    \/ (\E v \in SectionInputs : InputSection(v)) /\ lastEvent' = "section"
    \/ (\E a \in AgencyOptions : SelectAgency(a)) /\ lastEvent' = "agency"
    \/ ClearFilter /\ lastEvent' = "clear"
    \/ (\E g \in GranularityButtons : ClickGranularity(g)) /\ lastEvent' = "granularity"
    \/ (\E k \in SortKeyButtons : ClickSortKey(k)) /\ lastEvent' = "sortKey"

UiSpec == Init /\ [][UiNext]_vars

(***************************************************************************)
(* The query builders as functions: a database and arguments are drawn,    *)
(* one builder is called, and its result (with the rows the engine         *)
(* answers the built text with) is recorded in out.                        *)
(***************************************************************************)
FilterArgs ==
    { filterObj("", "", "", ""), filterObj("FAA", "", "", ""),
      filterObj("", "40", "", ""), filterObj("", "40", "1", ""),
      filterObj("", "40", "1", "2"), filterObj("", "", "1", "2") }
GranularityArgs == KnownGranularities \cup {"subpart"}
SortKeyArgs == KnownSortKeys \cup {"num_opinions"}
LimitArgs == 0..MaxLimit

Fresh == out = NoCall /\ Cells = InitCells

CallTheQuery(f, g, sk, lim) ==
    /\ Fresh
    /\ LET sql == theQuery(f, g, sk, lim)
       IN \E rows \in (IF sql.kind = "error" THEN {<<>>} ELSE Results(sql, db)) :
             out' = [kind |-> "theQuery", filter |-> f, granularity |-> g,
                     sortKey |-> sk, limit |-> lim, sql |-> sql, rows |-> rows]
    /\ UNCHANGED <<pipeVars, db>>

CallPdfsQuery(f, lim) ==
    /\ Fresh
    /\ LET sql == pdfsQuery(f, lim)
       IN \E rows \in Results(sql, db) :
             out' = [kind |-> "pdfsQuery", filter |-> f, limit |-> lim,
                     sql |-> sql, rows |-> rows]
    /\ UNCHANGED <<pipeVars, db>>

CallNextGranularity(g) ==
    /\ Fresh
    /\ out' = [kind |-> "nextGranularity", arg |-> g, ret |-> nextGranularity(g)]
    /\ UNCHANGED <<pipeVars, db>>

\* the granularity and sort-key cells written with arbitrary values: the
\* aggregate derive runs again on them
WriteConfig(g, sk) ==
    /\ Fresh
    /\ WriteCells([Cells EXCEPT !.granularity = g, !.sortKey = sk])
    /\ UNCHANGED lastEvent

QueryInit ==
    /\ InitPipeline
    /\ db \in Databases
    /\ out = NoCall

QueryNext ==
    \/ \E f \in FilterArgs, g \in GranularityArgs, sk \in SortKeyArgs, lim \in LimitArgs :
          CallTheQuery(f, g, sk, lim)
    \/ \E f \in FilterArgs, lim \in LimitArgs : CallPdfsQuery(f, lim)
    \/ \E g \in GranularityArgs : CallNextGranularity(g)
    \/ \E g \in GranularityArgs, sk \in SortKeyArgs : WriteConfig(g, sk)

QuerySpec == QueryInit /\ [][QueryNext]_vars

(***************************************************************************)
(* Properties of the query builders (checked under QuerySpec)              *)
(***************************************************************************)
AggregateCall == out.kind = "theQuery" /\ out.sql.kind = "sql"

\* C1: the aggregate query joins cfr_agency if and only if the filter's
\* agency is non-empty or the granularity is "agency"; when it is not needed
\* no two joined rows differ only in their agency, so the rows summed or
\* counted are not multiplied by a (title, chapter) with several agencies.
C1_AgencyJoinOnlyWhenNeeded ==
    AggregateCall =>
        LET needed == out.filter.agency # "" \/ out.granularity = "agency"
        IN /\ (JoinOf(out.sql, "cfr_agency") # "none") <=> needed
           /\ ~needed =>
                 \A r1, r2 \in FilteredRows(out.sql, db) :
                     (r1.s = r2.s /\ r1.p = r2.p /\ r1.o = r2.o) => r1 = r2

\* the value a result (a sequence of rows) gives for group key k
ValueAt(rows, k) == rows[CHOOSE i \in 1..Len(rows) : rows[i].key = k].value

SeparateQuery(sk) ==
    CHOOSE r \in Results(theQuery(out.filter, out.granularity, sk, DefaultLimit), db) : TRUE

\* C7: every row of the case_word_ratio query has ratio = num_cases /
\* num_words, with num_cases and num_words as the separately built
\* num_cases and num_words queries return them for the same filter and
\* granularity: the number of distinct packages of the group and the sum
\* of num_words over the sections of the group, unchanged by join fan-out.
C7_RatioIsCasesPerWords ==
    (AggregateCall /\ out.sortKey = "case_word_ratio") =>
        \A i \in 1..Len(out.rows) :
            LET k == out.rows[i].key
                ratio == out.rows[i].value
                nc == ValueAt(SeparateQuery("num_cases"), k).num
                nw == ValueAt(SeparateQuery("num_words"), k).num
                grp == GroupRows(out.sql, db, k)
            IN /\ ratio.num * nw = nc * ratio.den
               /\ nc = Cardinality({ r.o.package_id : r \in grp } \ {Null})
               /\ nw = SumWords({ [s |-> x] : x \in { r.s : r \in grp } })

\* C8: nextGranularity maps title to part, part to section and agency to
\* part; on "section" and on an unrecognized value it signals an error; from
\* title, part or agency, section is reached in at most two applications.
C8_NextGranularityProgression ==
    out.kind = "nextGranularity" =>
        LET g == out.arg
            r1 == out.ret
            r2 == nextGranularity(r1.value)
        IN /\ g = "title" => (~r1.threw /\ r1.value = "part")
           /\ g = "part" => (~r1.threw /\ r1.value = "section")
           /\ g = "agency" => (~r1.threw /\ r1.value = "part")
           /\ g \notin {"title", "chapter", "part", "agency"} => r1.threw
           /\ g \in {"title", "part", "agency"} =>
                 (r1.value = "section" \/ (~r2.threw /\ r2.value = "section"))

\* the section s passes the filter f
SectionMatches(f, s, d) ==
    IF f.agency # ""
    THEN \E a \in d.cfr_agency :
            a.title = s.title /\ a.chapter = s.chapter /\ a.agency = f.agency
    ELSE \/ f.title = ""
         \/ /\ s.title = f.title
            /\ \/ f.part = ""
               \/ /\ s.part = f.part
                  /\ (f.section = "" \/ s.section = f.section)

\* the opinions reachable from a matching section through a link
MatchingOpinions(f, d) ==
    { o \in d.court_opinion_pdf :
        \E s \in d.cfr_section, p \in d.cfr_pdf :
            /\ p.title = s.title /\ p.part = s.part /\ p.section = s.section
            /\ p.granule_id = o.granule_id
            /\ SectionMatches(f, s, d) }

\* C9: the case-list query returns at most limit rows, one per distinct
\* opinion matching the filter, the most recent opinion first.
C9_CaseListMostRecentFirst ==
    out.kind = "pdfsQuery" =>
        LET rows == out.rows
            all == MatchingOpinions(out.filter, db)
            n == Cardinality(all)
        IN /\ Len(rows) = (IF out.limit < n THEN out.limit ELSE n)
           /\ \A i \in 1..Len(rows) : rows[i] \in all
           /\ \A i, j \in 1..Len(rows) : i # j => rows[i] # rows[j]
           /\ \A i, j \in 1..Len(rows) :
                 i < j => rows[i].date_opinion_issued >= rows[j].date_opinion_issued
           /\ \A o \in all : \A i \in 1..Len(rows) :
                 (\A j \in 1..Len(rows) : rows[j] # o) =>
                     o.date_opinion_issued <= rows[i].date_opinion_issued

InitialPending ==
    { e \in pending : e.id < 3 /\ e.sql \in { theQuery(filterObj("", "", "", ""), "title",
                                                       "case_word_ratio", DefaultLimit),
                                              pdfsQuery(filterObj("", "", "", ""), DefaultLimit) } }

\* C5: a granularity outside {title, chapter, part, section, agency} or a
\* sort key outside {num_words, num_cases, case_word_ratio} makes theQuery
\* throw, never build a query for a default; when the aggregate derive runs
\* on such cells, nothing is dispatched and the output cell is unchanged.
C5_ConfigErrorFailsFast ==
    /\ (out.kind = "theQuery"
          /\ (out.granularity \notin {"title", "chapter", "part", "section", "agency"}
              \/ out.sortKey \notin {"num_words", "num_cases", "case_word_ratio"}))
       => (out.sql.kind = "error" /\ out.rows = <<>>)
    /\ (out.kind = "theQuery"
          /\ out.granularity \in {"title", "chapter", "part", "section", "agency"}
          /\ out.sortKey \in {"num_words", "num_cases", "case_word_ratio"})
       => (out.sql.kind = "sql" /\ out.sql.select = out.sortKey)
    /\ (granularity \notin {"title", "chapter", "part", "section", "agency"}
          \/ sortKey \notin {"num_words", "num_cases", "case_word_ratio"})
       => (pending = InitialPending /\ nextId = 3 /\ queryResults = <<>>)

\* the aggregate derive has run on an unknown granularity
C5_Witness ==
    /\ granularity = "subpart"
    /\ sortKey = "num_words"
    /\ Cardinality(pending) = 2

(***************************************************************************)
(* Properties of the filter cells (checked under UiSpec)                   *)
(***************************************************************************)
\* C2: the agency cell and the location cells are never both non-empty;
\* right after the user sets the agency the title, part and section cells
\* are empty, and right after the user sets a location field the agency
\* cell is empty.
C2_FilterCascade ==
    /\ ~(agencyFilter # "" /\ (titleFilter # "" \/ partFilter # "" \/ sectionFilter # ""))
    /\ lastEvent = "agency" => (titleFilter = "" /\ partFilter = "" /\ sectionFilter = "")
    /\ lastEvent \in {"title", "part", "section"} => agencyFilter = ""

(***************************************************************************)
(* Properties of the reactive pipeline                                     *)
(***************************************************************************)
CurrentFilter == filterObj(agencyFilter, titleFilter, partFilter, sectionFilter)
CurrentAggregateQuery == theQuery(CurrentFilter, granularity, sortKey, limit)
CurrentPdfsQuery == pdfsQuery(CurrentFilter, pdfsLimit)

OutputCell(comp) == IF comp = "aggregate" THEN queryResults ELSE pdfs

\* the step settles execution e by a rejection
Rejected(e) == e \in pending /\ e \notin pending' /\ settled'.failed[e.comp] = e.id
\* the step settles execution e otherwise: its promise resolved
Resolved(e) == e \in pending /\ e \notin pending' /\ settled'.failed[e.comp] # e.id

\* C3: executions are neither cancelled nor sequenced: a change of the
\* input cells removes no execution in flight, and every execution that
\* resolves writes its rows into its output cell, whatever has been
\* dispatched or has completed since it was dispatched.
C3_NoCancelNoSequencing ==
    [][ /\ Cells' # Cells => pending \subseteq pending'
        /\ \A e \in pending :
              Resolved(e) => /\ OutputCell(e.comp)' \in Results(e.sql, db)
                             /\ settled'.writer[e.comp] = e.id ]_vars

\* every execution has completed, none was rejected, and the aggregate
\* output cell holds rows that the query of the current cells cannot return
C3_StaleResultShown ==
    /\ pending = {}
    /\ settled.failed.aggregate = 0 /\ settled.failed.pdfs = 0
    /\ nextId > 3
    /\ settled.writer.aggregate = 1
    /\ queryResults \notin Results(CurrentAggregateQuery, db)

\* C4: a rejected execution leaves both output cells as they were; the
\* computation stays live after it: a later change of a cell it reads
\* dispatches a new execution, and a later execution that resolves writes
\* its rows into the output cell.
C4_RejectionKeepsLastValue ==
    [][ /\ \A e \in pending :
              Rejected(e) => (queryResults' = queryResults /\ pdfs' = pdfs)
        /\ (settled.failed.aggregate > 0 /\ CurrentAggregateQuery' # CurrentAggregateQuery)
              => \E e \in pending' \ pending :
                    e.comp = "aggregate" /\ e.sql = CurrentAggregateQuery'
        /\ (settled.failed.pdfs > 0 /\ CurrentPdfsQuery' # CurrentPdfsQuery)
              => \E e \in pending' \ pending :
                    e.comp = "pdfs" /\ e.sql = CurrentPdfsQuery'
        /\ \A e \in pending :
              (settled.failed[e.comp] > 0 /\ Resolved(e))
                 => OutputCell(e.comp)' \in Results(e.sql, db) ]_vars

\* execution 1 wrote the aggregate cell, a later execution was rejected and
\* the cell still holds what execution 1 wrote
C4_Witness ==
    /\ settled.writer.aggregate = 1
    /\ settled.failed.aggregate > 1
    /\ queryResults # <<>>
    /\ queryResults \in Results(theQuery(filterObj("", "", "", ""), "title",
                                         "case_word_ratio", DefaultLimit), db)

C6_AggregateInputs ==
    {"agencyFilter", "titleFilter", "partFilter", "sectionFilter",
     "granularity", "sortKey", "limit"}
C6_CaseListInputs ==
    {"agencyFilter", "titleFilter", "partFilter", "sectionFilter", "pdfsLimit"}

\* C6: a step dispatches exactly one new aggregate execution, for the query
\* of the new cells, when a filter field, the granularity, the sort key or
\* the limit changes value, and none otherwise; it dispatches exactly one
\* new case-list execution when a filter field or the case-list limit
\* changes value, and none otherwise.  Writing a cell its current value
\* dispatches nothing.
C6_RerunOnChangeOnly ==
    [][ LET newAgg == { e \in pending' \ pending : e.comp = "aggregate" }
            newPdfs == { e \in pending' \ pending : e.comp = "pdfs" }
        IN /\ IF \E k \in C6_AggregateInputs : Cells'[k] # Cells[k]
              THEN \E e \in newAgg : newAgg = {e} /\ e.sql = CurrentAggregateQuery'
              ELSE newAgg = {}
           /\ IF \E k \in C6_CaseListInputs : Cells'[k] # Cells[k]
              THEN \E e \in newPdfs : newPdfs = {e} /\ e.sql = CurrentPdfsQuery'
              ELSE newPdfs = {}
           /\ Cells' = Cells => nextId' = nextId ]_vars

\* the title was changed, which dispatched one execution of each
\* computation, and then the active sort-key button was clicked, which
\* dispatched nothing
C6_Witness ==
    /\ lastEvent = "sortKey"
    /\ sortKey = "case_word_ratio"
    /\ titleFilter = "40"
    /\ granularity = "title"
    /\ nextId = 5
    /\ Cardinality(pending) = 4

\* the engine answers execution i of computation comp with rows
Answer(comp, i) == \E e \in pending : e.id = i /\ e.comp = comp /\ Complete(e)

\* the engine does not leave an execution of comp unanswered forever
EngineAnswers(comp) == \A i \in 1..MaxExec : WF_vars(Answer(comp, i))

InFlight(comp, i) == \E e \in pending : e.id = i /\ e.comp = comp
Answered(comp, i) == settled.writer[comp] = i \/ settled.failed[comp] = i

\* the running program with an engine that answers every case-list
\* execution and may leave aggregate executions unanswered forever
HungAggregateSpec == Init /\ [][Next]_vars /\ EngineAnswers("pdfs")

====
